---- MODULE Spec2Model ----
(***************************************************************************)
(* Ready Metronome: the timing engine of src/src/metronome.rs             *)
(* (Metronome::start, start_tick_thread, beat_count, metronome_tick)      *)
(* running against the shared MetronomeSettings atomics, with the control *)
(* surface (the App side, which is not part of these sources) as the      *)
(* second writer of the shared settings.                                  *)
(*                                                                         *)
(* Time is discrete.  Instants are kept relative: last_tick_elapsed is    *)
(* last_tick.elapsed(), last_refresh_elapsed is last_refresh.elapsed().   *)
(***************************************************************************)
EXTENDS Integers, Sequences, FiniteSets, TLC

\* ------------------------------------------------------------ bounds
\* The u64 bar counter is capped: no tick starts once bar_count has reached
\* MaxBars.
MaxBars == 2
\* Longest time one tick's worker (spawn, open, decode, play) can take.
MaxWork == 1

\* usize is UsizeBits wide.
UsizeBits == 3
\* Longest item list a menu is given.
MaxItems == 3

\* ------------------------------------------------- program parameters
\* start(refresh_rate): the scheduler refresh period, in time units.
refresh_rate == 2

\* The selectable sounds, fixed at startup (0-based index selected_sound).
sound_list == <<"click.wav", "gone.wav", "noise.wav">>

\* What ./assets holds for a sound name: a playable file, no file at all,
\* or a file that opens but is no audio.
Asset(name) ==
    CASE name = "click.wav" -> "playable"
      [] name = "gone.wav" -> "absent"
      [] OTHER -> "undecodable"

\* Settings the control surface chooses from.
Tempos == {80, 120}
Volumes == {50, 100}
\* The nanosecond delay the control surface derives from bpm (one time unit
\* is a quarter of a second here).
NsDelay(b) == 240 \div b
\* Time signatures with the effective beats per bar derived from them.
Signatures ==
    { [note |-> 1, value |-> 4, triplets |-> FALSE, eights |-> FALSE,
       sixteens |-> FALSE, beats |-> 1],
      [note |-> 2, value |-> 4, triplets |-> FALSE, eights |-> FALSE,
       sixteens |-> FALSE, beats |-> 2],
      [note |-> 2, value |-> 4, triplets |-> FALSE, eights |-> TRUE,
       sixteens |-> FALSE, beats |-> 4] }

\* Elapsed times saturate: past the longest delay plus one refresh period
\* (for last_tick), past one refresh period (for last_refresh), every
\* comparison of the loop has the same outcome.
TickElapsedCap == NsDelay(80) + refresh_rate
RefreshElapsedCap == refresh_rate + 1
Saturate(e, cap) == IF e > cap THEN cap ELSE e

\* usize arithmetic.
UsizeMax == 2^UsizeBits - 1
Underflows(a, b) == a < b
WrappingSub(a, b) == (a - b) % 2^UsizeBits

\* ListState::selected() is an Option<usize>: None, or Some(i) written i.
None == -1

\* The item lists a menu is given, the empty one among them, and the
\* indexes select() is called with.
ItemNames == {sound_list[1], sound_list[2]}
ItemLists == UNION {[1..n -> ItemNames] : n \in 0..MaxItems}
Indexes == 0..MaxItems \cup {UsizeMax}

VARIABLES
    \* MetronomeSettings (shared atomics)
    bpm, ns_delay, ts_note, ts_value, ts_triplets, sub_eights, sub_sixteens,
    current_beat_count, beats_per_bar, bar_count, is_running, volume,
    selected_sound, tick_count, debug, error,
    \* locals of Metronome::start
    pc, running, first_tick, last_tick_elapsed, last_refresh_elapsed,
    timeout_refresh, stamp_after,
    \* locals of start_tick_thread and its worker
    selected_sound_name, tick_volume, tick_outcome,
    \* history (observers only; no action's guard reads them)
    run_ticks, run_clean, quiet_fault, wake_running, stop_phase, faulted,
    \* Menu (src/src/menu.rs): items, state.selected(), and whether a call
    \* on it has panicked
    items, selected, menu_panicked,
    \* history of the menu: the last call made on it and the selection
    \* before that call
    menu_call, menu_before

\* pc: "start" (entering start()), "loop" (line 110), "compare" (line 125),
\*   "spawn" (line 157), "worker" (the worker thread runs), "join"
\*   (line 170), "poll" (line 135), "sleep" (line 142), "debug" (line 145),
\*   "exited" (start() has returned).
\* stamp_after: the tick under way is a first tick, whose last_tick is
\*   recorded after start_tick_thread returns (line 123).
\* tick_outcome: what the joined worker's metronome_tick did.
\* run_clean, run_ticks: the counters were last reset by the engine, every
\*   tick since returned Ok and beats_per_bar has not changed since the
\*   first of them; run_ticks such ticks have been counted (0 when the run
\*   is not clean).
\* quiet_fault: the last tick failed to open its asset while is_running
\*   was true, and the control surface has written neither is_running nor
\*   error since.
\* wake_running: is_running as it was when the engine last woke (or
\*   entered start()); TRUE from the poll to the next wake.
\* stop_phase: "written" once a stop is written, "begun" once the next
\*   loop cycle has begun, "ended" once that cycle is over; "restarted"
\*   once is_running is written true after a stop, until the next tick is
\*   dispatched; "none" otherwise.
\* faulted: "halted" once the loop has returned on the error flag,
\*   "resumed" while the first tick after that is with its worker.

control_vars == <<bpm, ns_delay, ts_note, ts_value, ts_triplets, sub_eights,
                  sub_sixteens, beats_per_bar, volume, selected_sound,
                  is_running>>
engine_shared == <<current_beat_count, bar_count, tick_count, error>>
engine_locals == <<pc, running, first_tick, last_tick_elapsed,
                   last_refresh_elapsed, timeout_refresh, stamp_after,
                   selected_sound_name, tick_volume, tick_outcome>>
history == <<run_ticks, run_clean, quiet_fault, wake_running, stop_phase,
             faulted>>
metronome_vars == <<control_vars, debug, engine_shared, engine_locals,
                    history>>
menu_vars == <<items, selected, menu_panicked, menu_call, menu_before>>
vars == <<metronome_vars, menu_vars>>

\* ------------------------------------------------------------ Init
\* The settings as App builds them from InitMetronomeSettings, with the
\* metronome thread spawned and about to enter Metronome::start.  The
\* constructor is not part of these sources: no beat and no bar has been
\* counted yet.
Init ==
    /\ bpm = 120 /\ ns_delay = NsDelay(120)
    /\ \E s \in Signatures :
          /\ ts_note = s.note /\ ts_value = s.value
          /\ ts_triplets = s.triplets /\ sub_eights = s.eights
          /\ sub_sixteens = s.sixteens /\ beats_per_bar = s.beats
    /\ current_beat_count = 0
    /\ bar_count = 0
    /\ is_running \in BOOLEAN
    /\ volume = 100
    /\ selected_sound = 0
    /\ tick_count = 0
    /\ debug \in BOOLEAN
    /\ error = FALSE
    /\ pc = "start"
    /\ running = FALSE /\ first_tick = TRUE
    /\ last_tick_elapsed = 0 /\ last_refresh_elapsed = 0
    /\ timeout_refresh = refresh_rate /\ stamp_after = FALSE
    /\ selected_sound_name = "" /\ tick_volume = 0 /\ tick_outcome = "none"
    /\ run_ticks = 0 /\ run_clean = FALSE /\ quiet_fault = FALSE
    /\ wake_running = is_running /\ stop_phase = "none" /\ faulted = "no"
    /\ items = sound_list /\ selected = None /\ menu_panicked = FALSE
    /\ menu_call = "new" /\ menu_before = None

\* ------------------------------------------------- Metronome::start
\* A start() that forces the running flag on entry.
start_forces_running ==
    /\ pc = "start"
    /\ is_running' = TRUE
    /\ running' = TRUE
    /\ last_refresh_elapsed' = 0
    /\ first_tick' = TRUE
    /\ last_tick_elapsed' = 0
    /\ pc' = "loop"
    /\ wake_running' = TRUE
    /\ UNCHANGED <<bpm, ns_delay, ts_note, ts_value, ts_triplets, sub_eights,
                   sub_sixteens, beats_per_bar, volume, selected_sound,
                   debug, engine_shared, timeout_refresh,
                   stamp_after, selected_sound_name, tick_volume,
                   tick_outcome, run_ticks, run_clean, quiet_fault,
                   stop_phase, faulted>>
    /\ UNCHANGED menu_vars

\* A start() whose first tick waits for the delay like any other.
start_without_first_tick ==
    /\ pc = "start"
    /\ running' = is_running
    /\ last_refresh_elapsed' = 0
    /\ first_tick' = FALSE
    /\ last_tick_elapsed' = 0
    /\ pc' = "loop"
    /\ wake_running' = is_running
    /\ UNCHANGED <<control_vars, debug, engine_shared, timeout_refresh,
                   stamp_after, selected_sound_name, tick_volume,
                   tick_outcome, run_ticks, run_clean, quiet_fault,
                   stop_phase, faulted>>
    /\ UNCHANGED menu_vars

\* Lines 99-107: the prologue of start().  An audio output stream is
\* taken to be available (try_default().unwrap() does not panic).
start ==
    /\ pc = "start"
    /\ running' = is_running
    /\ last_refresh_elapsed' = 0
    /\ first_tick' = TRUE
    /\ last_tick_elapsed' = 0
    /\ pc' = "loop"
    /\ wake_running' = is_running
    /\ UNCHANGED <<control_vars, debug, engine_shared, timeout_refresh,
                   stamp_after, selected_sound_name, tick_volume,
                   tick_outcome, run_ticks, run_clean, quiet_fault,
                   stop_phase, faulted>>
    /\ UNCHANGED menu_vars

\* A sleep of two refresh periods, whatever has elapsed.
TimeoutRefreshTwice(elapsed) == 2 * refresh_rate

\* A saturating subtraction: no sleep at all once the refresh is overdue.
TimeoutRefreshSaturating(elapsed) ==
    IF elapsed <= refresh_rate THEN refresh_rate - elapsed ELSE 0

\* refresh_rate.checked_sub(last_refresh.elapsed()).unwrap_or(refresh_rate)
TimeoutRefresh(elapsed) ==
    IF elapsed <= refresh_rate THEN refresh_rate - elapsed ELSE refresh_rate

\* A loop that never looks at the error flag.
ExitOnErrorNever == FALSE
\* A loop that remembers its last halt and halts again.
ExitOnErrorLatched == running /\ (error \/ faulted = "halted")

\* Line 116: the loop returns when it is running and the error flag is set.
ExitOnError == running /\ error

\* A comparison against the delay of the tempo the engine started with.
TickDueAtFirstDelay(time_since_last_tick, delay) ==
    time_since_last_tick >= NsDelay(120)

\* Line 128: a tick is due.
TickDue(time_since_last_tick, delay) == time_since_last_tick >= delay

\* The cap on the u64 counters (no part of the program): no tick starts
\* once bar_count has reached MaxBars, or once current_beat_count has run
\* past every signature's bar (it does when beats_per_bar is lowered
\* under it).
BeatCap == 1 + CHOOSE n \in {s.beats : s \in Signatures} :
                  \A m \in {s.beats : s \in Signatures} : m <= n
CanTick == bar_count < MaxBars /\ current_beat_count < BeatCap

\* Lines 110-123: one pass from the loop head to the first-tick branch.
loop_head ==
    /\ pc = "loop"
    /\ timeout_refresh' = TimeoutRefresh(last_refresh_elapsed)
    /\ IF ~running
         THEN /\ pc' = "poll"
              /\ stop_phase' = IF stop_phase = "written" THEN "begun"
                               ELSE stop_phase
              /\ UNCHANGED <<first_tick, stamp_after, faulted>>
         ELSE IF ExitOnError
         THEN /\ pc' = "exited"
              /\ faulted' = "halted"
              /\ stop_phase' = IF stop_phase \in {"written", "begun"}
                               THEN "ended" ELSE stop_phase
              /\ UNCHANGED <<first_tick, stamp_after>>
         ELSE IF first_tick
         THEN /\ CanTick
              /\ first_tick' = FALSE
              /\ stamp_after' = TRUE
              /\ pc' = "spawn"
              /\ stop_phase' = IF stop_phase = "written" THEN "begun"
                               ELSE IF stop_phase = "restarted" THEN "none"
                               ELSE stop_phase
              /\ UNCHANGED faulted
         ELSE /\ pc' = "compare"
              /\ stop_phase' = IF stop_phase = "written" THEN "begun"
                               ELSE stop_phase
              /\ UNCHANGED <<first_tick, stamp_after, faulted>>
    /\ UNCHANGED <<control_vars, debug, engine_shared, running,
                   last_tick_elapsed, last_refresh_elapsed,
                   selected_sound_name, tick_volume, tick_outcome,
                   run_ticks, run_clean, quiet_fault, wake_running>>
    /\ UNCHANGED menu_vars

\* Lines 125-131: the elapsed-time comparison of a later tick.
compare ==
    /\ pc = "compare"
    /\ IF TickDue(last_tick_elapsed, ns_delay)
         THEN /\ CanTick
              /\ last_tick_elapsed' = 0
              /\ stamp_after' = FALSE
              /\ pc' = "spawn"
              /\ stop_phase' = IF stop_phase = "restarted" THEN "none"
                               ELSE stop_phase
         ELSE /\ pc' = "poll"
              /\ UNCHANGED <<last_tick_elapsed, stamp_after, stop_phase>>
    /\ UNCHANGED <<control_vars, debug, engine_shared, running, first_tick,
                   last_refresh_elapsed, timeout_refresh,
                   selected_sound_name, tick_volume, tick_outcome,
                   run_ticks, run_clean, quiet_fault, wake_running, faulted>>
    /\ UNCHANGED menu_vars

\* ------------------------------------------------ start_tick_thread
\* A spawn that does not wait for its worker.
spawn_worker_detached ==
    /\ pc = "spawn"
    /\ selected_sound_name' = sound_list[selected_sound + 1]
    /\ tick_volume' = volume
    /\ pc' = "join"
    /\ faulted' = IF faulted = "halted" THEN "resumed" ELSE faulted
    /\ UNCHANGED <<control_vars, debug, engine_shared, running, first_tick,
                   last_tick_elapsed, last_refresh_elapsed, timeout_refresh,
                   stamp_after, tick_outcome,
                   run_ticks, run_clean, quiet_fault, wake_running,
                   stop_phase>>
    /\ UNCHANGED menu_vars

\* Lines 157-161: the selected sound's name and the volume are read and
\* the worker thread is spawned: the tick is dispatched.
spawn_worker ==
    /\ pc = "spawn"
    /\ selected_sound_name' = sound_list[selected_sound + 1]
    /\ tick_volume' = volume
    /\ pc' = "worker"
    /\ faulted' = IF faulted = "halted" THEN "resumed" ELSE faulted
    /\ UNCHANGED <<control_vars, debug, engine_shared, running, first_tick,
                   last_tick_elapsed, last_refresh_elapsed, timeout_refresh,
                   stamp_after, tick_outcome,
                   run_ticks, run_clean, quiet_fault, wake_running,
                   stop_phase>>
    /\ UNCHANGED menu_vars

\* metronome_tick (lines 192-210): what one tick does.  File::open failing
\* returns Err; Decoder::new(..).unwrap() panics on a file that is no
\* audio; the result of play_raw is dropped, played or not.
metronome_tick(name, play_ok) ==
    IF Asset(name) = "absent" THEN "open_failed"
    ELSE IF Asset(name) = "undecodable" THEN "decode_panic"
    ELSE IF play_ok THEN "played"
    ELSE "play_failed"

\* What the worker's closure gets back from metronome_tick.
TickResult(outcome) ==
    CASE outcome = "open_failed" -> "Err"
      [] outcome = "decode_panic" -> "panic"
      [] OTHER -> "Ok"

\* A worker that drops the Err as well.
WorkerNeverSetsError(outcome) == FALSE

\* Lines 162-167: the worker's match sets the error flag on Err alone.
WorkerSetsError(outcome) == TickResult(outcome) = "Err"

\* Lines 161-168: the worker thread runs the tick; it takes up to MaxWork
\* time units.  The engine is blocked in join meanwhile.
worker ==
    /\ pc = "worker"
    /\ \E play_ok \in BOOLEAN, w \in 0..MaxWork :
          LET outcome == metronome_tick(selected_sound_name, play_ok) IN
          /\ tick_outcome' = outcome
          /\ error' = IF WorkerSetsError(outcome) THEN TRUE ELSE error
          /\ quiet_fault' = IF outcome = "open_failed" THEN is_running
                            ELSE quiet_fault
          /\ last_tick_elapsed' = Saturate(last_tick_elapsed + w, TickElapsedCap)
          /\ last_refresh_elapsed' =
                Saturate(last_refresh_elapsed + w, RefreshElapsedCap)
    /\ pc' = "join"
    /\ UNCHANGED <<control_vars, debug, current_beat_count, bar_count,
                   tick_count, running, first_tick, timeout_refresh,
                   stamp_after, selected_sound_name, tick_volume,
                   run_ticks, run_clean, wake_running, stop_phase, faulted>>
    /\ UNCHANGED menu_vars

\* A wrap one beat early.
BeatWrapsEarly(beat, per_bar) == beat + 1 = per_bar

\* Line 177: the bar is full.
BeatWraps(beat, per_bar) == beat = per_bar

\* A wrap to beat 0 instead of beat 1.
beat_count_wraps_to_zero ==
    IF BeatWraps(current_beat_count, beats_per_bar)
      THEN /\ current_beat_count' = 0
           /\ bar_count' = bar_count + 1
      ELSE /\ current_beat_count' = current_beat_count + 1
           /\ UNCHANGED bar_count

\* A count that skips a beat.
beat_count_skips ==
    IF BeatWraps(current_beat_count, beats_per_bar)
      THEN /\ current_beat_count' = 1
           /\ bar_count' = bar_count + 1
      ELSE /\ current_beat_count' = current_beat_count + 2
           /\ UNCHANGED bar_count

\* beat_count (lines 175-189).
beat_count ==
    IF BeatWraps(current_beat_count, beats_per_bar)
      THEN /\ current_beat_count' = 1
           /\ bar_count' = bar_count + 1
      ELSE /\ current_beat_count' = current_beat_count + 1
           /\ UNCHANGED bar_count

\* Line 171: whether start_tick_thread counts the tick it has joined.
CountsTick(outcome) == TRUE

\* Lines 170-171, and line 123 for a first tick: the worker is joined
\* (a panic of the worker is dropped with the join's result), the tick is
\* counted, and the first-tick branch records last_tick afterwards.
join_and_count ==
    /\ pc = "join"
    /\ IF CountsTick(tick_outcome)
         THEN beat_count
         ELSE UNCHANGED <<current_beat_count, bar_count>>
    /\ last_tick_elapsed' = IF stamp_after THEN 0 ELSE last_tick_elapsed
    /\ stamp_after' = FALSE
    /\ selected_sound_name' = ""
    /\ tick_volume' = 0
    /\ tick_outcome' = "none"
    /\ pc' = "poll"
    /\ run_clean' = (run_clean /\ TickResult(tick_outcome) = "Ok")
    /\ run_ticks' = IF run_clean' THEN run_ticks + 1 ELSE 0
    /\ faulted' = "no"
    /\ UNCHANGED <<control_vars, debug, tick_count, error, running,
                   first_tick, last_refresh_elapsed, timeout_refresh,
                   quiet_fault, wake_running, stop_phase>>
    /\ UNCHANGED menu_vars

\* ---------------------------------------------- the rest of the loop
ResetBarCount == 1
ResetBeatCount == 0

\* Line 135: the value the loop reads into `running`.
PollRunning == is_running

\* Lines 135-140: is_running is read; when it is false the counters are
\* reset and the next tick is a first tick (last_tick is then not tracked
\* until that tick records it).
poll_running ==
    /\ pc = "poll"
    /\ running' = PollRunning
    /\ IF ~running'
         THEN /\ bar_count' = ResetBarCount
              /\ current_beat_count' = ResetBeatCount
              /\ first_tick' = TRUE
              /\ last_tick_elapsed' = 0
              /\ run_ticks' = 0
              /\ run_clean' = TRUE
         ELSE UNCHANGED <<bar_count, current_beat_count, first_tick,
                          last_tick_elapsed, run_ticks, run_clean>>
    /\ wake_running' = TRUE
    /\ pc' = "sleep"
    /\ UNCHANGED <<control_vars, debug, tick_count, error,
                   last_refresh_elapsed, timeout_refresh, stamp_after,
                   selected_sound_name, tick_volume, tick_outcome,
                   quiet_fault, stop_phase, faulted>>
    /\ UNCHANGED menu_vars

\* Line 142: spin_sleep::sleep(timeout_refresh).  The engine wakes here.
\* timeout_refresh is not used again in this pass of the loop.  While
\* first_tick is set last_tick is not tracked: the first-tick branch
\* overwrites it (line 123) before line 125 can read it.
sleep ==
    /\ pc = "sleep"
    /\ last_tick_elapsed' =
          IF first_tick THEN 0
          ELSE Saturate(last_tick_elapsed + timeout_refresh, TickElapsedCap)
    /\ last_refresh_elapsed' =
          Saturate(last_refresh_elapsed + timeout_refresh, RefreshElapsedCap)
    /\ timeout_refresh' = refresh_rate
    /\ wake_running' = is_running
    /\ pc' = "debug"
    /\ UNCHANGED <<control_vars, debug, engine_shared, running, first_tick,
                   stamp_after, selected_sound_name, tick_volume,
                   tick_outcome, run_ticks, run_clean, quiet_fault,
                   stop_phase, faulted>>
    /\ UNCHANGED menu_vars

\* The largest tick_count (u64::MAX in the program).
MaxTickCount == 1

\* Lines 145-151: the debug bookkeeping, which ends the loop body.
debug_tick ==
    /\ pc = "debug"
    /\ IF debug /\ last_refresh_elapsed >= refresh_rate
         THEN /\ tick_count' = IF tick_count = MaxTickCount THEN 0
                               ELSE tick_count + 1
              /\ last_refresh_elapsed' = 0
         ELSE UNCHANGED <<tick_count, last_refresh_elapsed>>
    /\ pc' = "loop"
    /\ stop_phase' = IF stop_phase = "begun" THEN "ended" ELSE stop_phase
    /\ UNCHANGED <<control_vars, debug, current_beat_count, bar_count,
                   error, running, first_tick, last_tick_elapsed,
                   timeout_refresh, stamp_after, selected_sound_name,
                   tick_volume, tick_outcome, run_ticks, run_clean,
                   quiet_fault, wake_running, faulted>>
    /\ UNCHANGED menu_vars

\* Every step of the engine thread and of its tick worker.
EngineNext ==
    \/ start \/ loop_head \/ compare \/ spawn_worker
    \/ worker \/ join_and_count \/ poll_running \/ sleep \/ debug_tick

\* ------------------------------------------------ the control surface
\* The App side is not part of these sources; it writes the settings it
\* owns, each write one atomic store.
set_bpm(b) ==
    /\ b # bpm
    /\ bpm' = b
    /\ ns_delay' = NsDelay(b)
    /\ UNCHANGED <<ts_note, ts_value, ts_triplets, sub_eights, sub_sixteens,
                   beats_per_bar, volume, selected_sound, is_running,
                   debug, engine_shared, engine_locals, history>>
    /\ UNCHANGED menu_vars

set_time_signature(s) ==
    /\ s.beats # beats_per_bar
    /\ ts_note' = s.note /\ ts_value' = s.value
    /\ ts_triplets' = s.triplets /\ sub_eights' = s.eights
    /\ sub_sixteens' = s.sixteens /\ beats_per_bar' = s.beats
    /\ run_clean' = (run_clean /\ run_ticks = 0)
    /\ run_ticks' = 0
    /\ UNCHANGED <<bpm, ns_delay, volume, selected_sound, is_running,
                   debug, engine_shared, engine_locals,
                   quiet_fault, wake_running, stop_phase, faulted>>
    /\ UNCHANGED menu_vars

set_volume(v) ==
    /\ v # volume
    /\ volume' = v
    /\ UNCHANGED <<bpm, ns_delay, ts_note, ts_value, ts_triplets, sub_eights,
                   sub_sixteens, beats_per_bar, selected_sound, is_running,
                   debug, engine_shared, engine_locals, history>>
    /\ UNCHANGED menu_vars

set_selected_sound(i) ==
    /\ i # selected_sound
    /\ selected_sound' = i
    /\ UNCHANGED <<bpm, ns_delay, ts_note, ts_value, ts_triplets, sub_eights,
                   sub_sixteens, beats_per_bar, volume, is_running,
                   debug, engine_shared, engine_locals, history>>
    /\ UNCHANGED menu_vars

\* Start (TRUE) and stop (FALSE); a stop while stopped writes FALSE again.
set_is_running(b) ==
    /\ is_running' = b
    /\ quiet_fault' = FALSE
    /\ stop_phase' = IF b
                       THEN IF stop_phase = "none" THEN "none"
                            ELSE "restarted"
                     ELSE IF is_running THEN "written" ELSE stop_phase
    /\ UNCHANGED <<bpm, ns_delay, ts_note, ts_value, ts_triplets, sub_eights,
                   sub_sixteens, beats_per_bar, volume, selected_sound,
                   debug, engine_shared, engine_locals, run_ticks,
                   run_clean, wake_running, faulted>>
    /\ UNCHANGED menu_vars

\* The control surface clears the error flag before a fresh start.
clear_error ==
    /\ error
    /\ error' = FALSE
    /\ quiet_fault' = FALSE
    /\ UNCHANGED <<control_vars, debug, current_beat_count, bar_count,
                   tick_count, engine_locals, run_ticks, run_clean,
                   wake_running, stop_phase, faulted>>
    /\ UNCHANGED menu_vars

\* An explicit start of a halted engine: start() is called again.
spawn_metronome ==
    /\ pc = "exited"
    /\ pc' = "start"
    /\ UNCHANGED <<control_vars, debug, engine_shared, running, first_tick,
                   last_tick_elapsed, last_refresh_elapsed, timeout_refresh,
                   stamp_after, selected_sound_name, tick_volume,
                   tick_outcome, history>>
    /\ UNCHANGED menu_vars

ControlNext ==
    \/ \E b \in Tempos : set_bpm(b)
    \/ \E s \in Signatures : set_time_signature(s)
    \/ \E v \in Volumes : set_volume(v)
    \/ \E i \in 0..(Len(sound_list) - 1) : set_selected_sound(i)
    \/ \E b \in BOOLEAN : set_is_running(b)
    \/ clear_error
    \/ spawn_metronome

Next == EngineNext \/ ControlNext

Spec == Init /\ [][Next]_vars

\* The engine under a control surface that starts and stops, picks sounds,
\* changes the time signature, clears the error flag and restarts a halted
\* engine, and leaves tempo and volume alone.
RunControl ==
    \/ \E s \in Signatures : set_time_signature(s)
    \/ \E i \in 0..(Len(sound_list) - 1) : set_selected_sound(i)
    \/ \E b \in BOOLEAN : set_is_running(b)
    \/ clear_error
    \/ spawn_metronome

RunNext == EngineNext \/ RunControl

RunSpec == Init /\ [][RunNext]_vars

\* The same, with the engine thread and its worker scheduled fairly: a
\* step of theirs that stays possible is taken.
LiveSpec == Init /\ [][RunNext]_vars /\ WF_vars(EngineNext)

\* The engine under a control surface that writes every setting it owns
\* and never restarts a halted engine.
SettingsControl ==
    \/ \E b \in Tempos : set_bpm(b)
    \/ \E s \in Signatures : set_time_signature(s)
    \/ \E v \in Volumes : set_volume(v)
    \/ \E i \in 0..(Len(sound_list) - 1) : set_selected_sound(i)
    \/ \E b \in BOOLEAN : set_is_running(b)

SettingsNext == EngineNext \/ SettingsControl

SettingsSpec == Init /\ [][SettingsNext]_vars

\* A tick whose worker takes no time.
InstantWorker == worker /\ UNCHANGED <<last_tick_elapsed, last_refresh_elapsed>>

PacedEngineNext ==
    \/ start \/ loop_head \/ compare \/ spawn_worker
    \/ InstantWorker \/ join_and_count \/ poll_running \/ sleep \/ debug_tick

\* A control surface that picks the tempo before the engine enters start()
\* and from then on starts and stops it.
PacedControl ==
    \/ pc = "start" /\ \E b \in Tempos : set_bpm(b)
    \/ \E b \in BOOLEAN : set_is_running(b)

PacedNext == PacedEngineNext \/ PacedControl

\* The engine with a constant delay and ticks dispatched in no time.
PacedSpec == Init /\ [][PacedNext]_vars

\* ------------------------------------------------------------- Menu
\* Menu::new (lines 14-19): a menu over new_items with nothing selected.
new(new_items) ==
    /\ ~menu_panicked
    /\ items' = new_items
    /\ selected' = None
    /\ menu_call' = "new" /\ menu_before' = selected
    /\ UNCHANGED <<menu_panicked, metronome_vars>>

\* A set_items that keeps the selection.
set_items_keeps_selection(new_items) ==
    /\ ~menu_panicked
    /\ items' = new_items
    /\ selected' = selected
    /\ menu_call' = "set_items" /\ menu_before' = selected
    /\ UNCHANGED <<menu_panicked, metronome_vars>>

\* Menu::set_items (lines 21-24).
set_items(new_items) ==
    /\ ~menu_panicked
    /\ items' = new_items
    /\ selected' = None
    /\ menu_call' = "set_items" /\ menu_before' = selected
    /\ UNCHANGED <<menu_panicked, metronome_vars>>

\* Lines 28-32: the index after Some(i), last being items.len() - 1.
NextSelected(i, last) == IF i >= last THEN 0 ELSE i + 1

\* A previous() that stops at the head of the list.
PreviousSelectedClamps(i, last) == IF i = 0 THEN 0 ELSE i - 1

\* Lines 42-46: the index before Some(i), last being items.len() - 1.
PreviousSelected(i, last) == IF i = 0 THEN last ELSE i - 1

\* Menu::next (lines 26-38).  items.len() - 1 underflows on an empty list:
\* a build with overflow checks panics there, one without wraps.
next ==
    /\ ~menu_panicked
    /\ menu_call' = "next" /\ menu_before' = selected
    /\ IF selected = None
         THEN selected' = 0 /\ UNCHANGED menu_panicked
         ELSE IF Underflows(Len(items), 1)
         THEN \/ menu_panicked' = TRUE /\ UNCHANGED selected
              \/ /\ selected' = NextSelected(selected,
                                             WrappingSub(Len(items), 1))
                 /\ UNCHANGED menu_panicked
         ELSE /\ selected' = NextSelected(selected, Len(items) - 1)
              /\ UNCHANGED menu_panicked
    /\ UNCHANGED <<items, metronome_vars>>

\* Menu::previous (lines 40-52).  items.len() - 1 is computed for Some(0)
\* alone, and underflows on an empty list as in next().
previous ==
    /\ ~menu_panicked
    /\ menu_call' = "previous" /\ menu_before' = selected
    /\ IF selected = None
         THEN selected' = 0 /\ UNCHANGED menu_panicked
         ELSE IF selected = 0 /\ Underflows(Len(items), 1)
         THEN \/ menu_panicked' = TRUE /\ UNCHANGED selected
              \/ /\ selected' = PreviousSelected(selected,
                                                 WrappingSub(Len(items), 1))
                 /\ UNCHANGED menu_panicked
         ELSE /\ selected' = PreviousSelected(selected, Len(items) - 1)
              /\ UNCHANGED menu_panicked
    /\ UNCHANGED <<items, metronome_vars>>

\* Menu::deselect (lines 54-56).
deselect ==
    /\ ~menu_panicked
    /\ selected' = None
    /\ menu_call' = "deselect" /\ menu_before' = selected
    /\ UNCHANGED <<items, menu_panicked, metronome_vars>>

\* Menu::select (lines 58-60): the index is stored as given.
select(index) ==
    /\ ~menu_panicked
    /\ selected' = index
    /\ menu_call' = "select" /\ menu_before' = selected
    /\ UNCHANGED <<items, menu_panicked, metronome_vars>>

\* Every call on the menu.
MenuNext ==
    \/ \E new_items \in ItemLists : new(new_items)
    \/ \E new_items \in ItemLists : set_items(new_items)
    \/ next
    \/ previous
    \/ deselect
    \/ \E index \in Indexes : select(index)

\* The menu alone, over one initial state of the settings, the engine not
\* yet started.
MenuInit == Init /\ ~is_running /\ ~debug /\ beats_per_bar = 4

MenuSpec == MenuInit /\ [][MenuNext]_vars

\* ------------------------------------------------------------ claims
\* A run that began at the engine's reset, with beats_per_bar unchanged
\* since its first counted tick and every tick's metronome_tick returning
\* Ok, has counted n ticks.
CleanRun(n) == run_clean /\ run_ticks = n

C2_Wraparound_AsStated ==
    (CleanRun(4) /\ beats_per_bar = 4) =>
        /\ current_beat_count = 1
        /\ bar_count = ResetBarCount + 1

\* C2 amended: with beats_per_bar = 4 and the counters at their reset
\* values when the run starts, after exactly 4 ticks current_beat_count is 4
\* and bar_count is still its reset value; the fifth tick brings
\* current_beat_count back to 1 and bar_count to its reset value plus 1.
C2_Wraparound ==
    /\ (CleanRun(4) /\ beats_per_bar = 4) =>
          /\ current_beat_count = 4
          /\ bar_count = ResetBarCount
    /\ (CleanRun(5) /\ beats_per_bar = 4) =>
          /\ current_beat_count = 1
          /\ bar_count = ResetBarCount + 1

\* C2 witness: the fifth tick of a clean run in bars of four beats.
C2_Witness == CleanRun(5) /\ beats_per_bar = 4 /\ pc = "poll"

\* The places of the loop from which a further tick is dispatched.
DispatchPcs == {"compare", "spawn", "worker"}

\* C3: after a tick whose asset could not be opened, dispatched while
\* is_running was true, and for as long as the control surface writes
\* neither is_running nor the error flag: error is true, is_running is still
\* true, the engine never gets to dispatch another tick, and from the loop
\* head it returns.
C3_MissingAssetHalts ==
    quiet_fault =>
        /\ error
        /\ is_running
        /\ pc \notin DispatchPcs
        /\ (pc \in {"sleep", "debug", "loop"} => running)

\* C3 witness: the engine has returned after such a tick.
C3_Witness == quiet_fault /\ pc = "exited" /\ faulted = "halted"

\* C4 as stated: the step that joins a tick whose executor failed (its
\* metronome_tick returned Err) leaves current_beat_count and bar_count
\* unchanged.
C4_FailedTickNotCounted ==
    [][(pc = "join" /\ TickResult(tick_outcome) = "Err")
          => UNCHANGED <<current_beat_count, bar_count>>]_vars

\* C5 as stated: no tick is dispatched in a cycle that the engine began
\* (woke into) while is_running was false.
C5_StopSkipsTrigger == pc = "worker" => wake_running

\* C6 as stated: once is_running has been set to false and has stayed
\* false, from the end of the engine's next loop cycle on
\* current_beat_count and bar_count hold their reset values.
C6_StopResets ==
    stop_phase = "ended" =>
        /\ current_beat_count = ResetBeatCount
        /\ bar_count = ResetBarCount

\* C7: no step of the engine thread or of its worker changes bpm, ns_delay,
\* the time signature, the subdivision flags, beats_per_bar, volume,
\* selected_sound or is_running (nor the debug flag): of the shared settings
\* it writes current_beat_count, bar_count, error and tick_count alone.
C7_EngineWritesOwnFields ==
    [][EngineNext => UNCHANGED <<control_vars, debug>>]_vars

\* C7 witness: the engine is in the middle of a tick after the control
\* surface has changed tempo, volume, sound and signature.
C7_Witness ==
    /\ pc = "join"
    /\ bpm = 80 /\ ns_delay = NsDelay(80)
    /\ volume = 50 /\ tick_volume = 50
    /\ selected_sound = 1
    /\ is_running

\* C8: a loop head reached while running with the error flag set returns
\* without dispatching, and no worker is spawned while the error flag is
\* set: between the loop's check and the spawn the flag stays false.
C8_HaltOnError ==
    [][/\ (pc = "loop" /\ running /\ error /\ EngineNext) => pc' = "exited"
       /\ (pc \in {"compare", "spawn"}) => ~error
       /\ spawn_worker => ~error]_vars

\* C8 witness: the engine re-halted: it returned with the error flag set,
\* is_running true and the counters reset by a stop it had seen after the
\* failed tick was counted, no tick dispatched since.
C8_Witness ==
    /\ pc = "exited" /\ error /\ is_running /\ first_tick
    /\ current_beat_count = ResetBeatCount /\ bar_count = ResetBarCount

C10_UndecodableSetsError ==
    (pc = "join" /\ tick_outcome = "decode_panic") => error

\* C11: every elapsed-time comparison dispatches a tick exactly when the
\* time since the last recorded trigger is at least the ns_delay stored in
\* the shared settings at that comparison, whatever the delay was a cycle
\* earlier; it goes on to the poll otherwise, and a tick that is not a first
\* tick is dispatched by such a comparison alone.
C11_LiveTempoChange ==
    [][/\ (pc = "compare" /\ EngineNext) =>
            /\ pc' \in {"spawn", "poll"}
            /\ pc' = "spawn" <=> last_tick_elapsed >= ns_delay
       /\ (pc # "spawn" /\ pc' = "spawn" /\ ~first_tick) => pc = "compare"
      ]_vars

\* C11 witness: the tempo is 80, no longer the 120 the settings began with,
\* and the comparison made one delay of tempo 120 after the last trigger
\* has declined to dispatch.
C11_Witness ==
    /\ pc = "poll" /\ running /\ ~first_tick /\ tick_outcome = "none"
    /\ bpm = 80 /\ ns_delay = NsDelay(80)
    /\ last_tick_elapsed = NsDelay(120)
    /\ MaxWork < NsDelay(120)

\* C12: first_tick is set on entering start() and whenever the poll reads
\* is_running false, and by nothing else; a loop head reached with it set,
\* running and no error dispatches a tick at once, with no comparison, and
\* clears it; the trigger time of that tick is recorded when its thread
\* has been joined; after an observed stop no other tick is under way
\* until that one is counted; and every tick dispatched with first_tick
\* clear comes from a comparison that found it due.
C12_FirstTickImmediate ==
    [][/\ start => first_tick'
       /\ (poll_running /\ ~running') => first_tick'
       /\ (first_tick' /\ ~first_tick) =>
              (start \/ (poll_running /\ ~running'))
       /\ (pc = "loop" /\ running /\ ~error /\ first_tick /\ EngineNext) =>
              (pc' = "spawn" /\ stamp_after' /\ ~first_tick')
       /\ (first_tick /\ ~first_tick') => (pc' = "spawn" /\ stamp_after')
       /\ (stamp_after /\ join_and_count) => last_tick_elapsed' = 0
       /\ (run_clean /\ run_ticks = 0) => (first_tick \/ stamp_after)
       /\ (pc # "spawn" /\ pc' = "spawn" /\ ~first_tick) =>
              (pc = "compare" /\ TickDue(last_tick_elapsed, ns_delay))
      ]_vars

\* C12 witness: the first tick after an observed stop has been counted and
\* its trigger time recorded, the worker having taken its time.
C12_Witness ==
    /\ pc = "poll" /\ CleanRun(1) /\ running /\ ~first_tick
    /\ last_tick_elapsed = 0 /\ last_refresh_elapsed > refresh_rate
    /\ current_beat_count = 1 /\ bar_count = ResetBarCount

\* C13: with the delay constant and dispatch taking no time, every tick
\* that is not a first tick is dispatched at least ns_delay and less than
\* ns_delay + refresh_rate after the trigger recorded before it.
C13_TickInterval ==
    [][(pc # "spawn" /\ pc' = "spawn" /\ ~first_tick) =>
          /\ last_tick_elapsed >= ns_delay
          /\ last_tick_elapsed < ns_delay + refresh_rate]_vars

\* C13 witness: at tempo 80 (a delay of 3, refresh period 2) the comparison
\* is about to dispatch a tick 4 units after the last trigger.
C13_Witness ==
    /\ pc = "compare" /\ running /\ ns_delay = NsDelay(80) /\ CanTick
    /\ last_tick_elapsed = 4
    /\ TickDue(last_tick_elapsed, ns_delay)

\* C14: every counted tick either adds 1 to current_beat_count and leaves
\* bar_count alone, or sets current_beat_count to 1 and adds 1 to bar_count;
\* bar_count goes down only when the poll observes a stop and resets it; and
\* in a run from the reset with beats_per_bar unchanged the beat wraps
\* exactly when it stands at beats_per_bar, so that a bar's beats are 1, 2,
\* ..., beats_per_bar, none repeated and none skipped.
C14_MonotonicCounting ==
    [][/\ join_and_count =>
            \/ /\ current_beat_count' = current_beat_count + 1
               /\ bar_count' = bar_count
            \/ /\ current_beat_count' = 1
               /\ bar_count' = bar_count + 1
       /\ bar_count' < bar_count => (poll_running /\ ~running')
       /\ (current_beat_count' # current_beat_count /\ ~join_and_count) =>
            (poll_running /\ ~running')
       /\ (run_clean /\ run_clean' /\ join_and_count) =>
            /\ current_beat_count <= beats_per_bar
            /\ current_beat_count' =
                  IF current_beat_count = beats_per_bar THEN 1
                  ELSE current_beat_count + 1
            /\ bar_count' =
                  IF current_beat_count = beats_per_bar THEN bar_count + 1
                  ELSE bar_count
      ]_vars

\* C14 witness: in bars of four beats, the fourth tick of a run has been
\* counted: beats 1, 2, 3 and 4 of the first bar, in that order.
C14_Witness ==
    /\ CleanRun(4) /\ beats_per_bar = 4 /\ pc = "sleep" /\ running
    /\ current_beat_count = 4 /\ bar_count = ResetBarCount

\* C15: on a list of L >= 1 items with item i < L selected, next() selects
\* (i + 1) mod L and previous() selects (i - 1 + L) mod L; previous() after
\* next() and next() after previous() give i back; and with nothing
\* selected next() and previous() both select 0.
C15_MenuWraps ==
    LET L == Len(items)
        i == menu_before
    IN  /\ (menu_call = "next" /\ L >= 1 /\ i # None /\ i < L) =>
              selected = (i + 1) % L
        /\ (menu_call = "previous" /\ L >= 1 /\ i # None /\ i < L) =>
              selected = (i - 1 + L) % L
        /\ (menu_call \in {"next", "previous"} /\ i = None) => selected = 0
        /\ (L >= 1 /\ selected # None /\ selected < L) =>
              /\ PreviousSelected(NextSelected(selected, L - 1), L - 1)
                    = selected
              /\ NextSelected(PreviousSelected(selected, L - 1), L - 1)
                    = selected

\* C15 witness: previous() on the first of three items has wrapped to the
\* last.
C15_Witness ==
    /\ menu_call = "previous" /\ menu_before = 0
    /\ Len(items) = 3 /\ selected = 2 /\ ~menu_panicked

C17_BeatInsideBar == current_beat_count <= beats_per_bar

\* C18 as stated: the first tick dispatched after is_running has been
\* written false and then true again is dispatched as a first tick, with
\* no comparison, from the counters' reset values (for bar_count, before
\* the engine's first reset, the 0 it was constructed with).
C18_RestartFromReset ==
    [][(stop_phase = "restarted" /\ pc # "spawn" /\ pc' = "spawn") =>
          /\ pc = "loop" /\ first_tick
          /\ current_beat_count = ResetBeatCount
          /\ bar_count \in {ResetBarCount, 0}]_vars

\* C19: while a tick's worker runs, the only step of the engine is the
\* worker's, and it leaves the counters and the loop's `running` alone; the
\* join that counts the tick has a finished worker's outcome; the poll, the
\* loop head, the comparison and the spawn are all taken with no worker
\* alive; and a worker whose tick returned Err has set the error flag when
\* it finishes, before the loop head that follows reads it.
C19_DispatchAndJoin ==
    [][/\ (pc = "worker" /\ EngineNext) =>
            /\ worker
            /\ UNCHANGED <<current_beat_count, bar_count, running>>
       /\ join_and_count => (tick_outcome # "none" /\ selected_sound_name # "")
       /\ (poll_running \/ loop_head \/ compare \/ spawn_worker) =>
            (tick_outcome = "none" /\ selected_sound_name = "")
       /\ (worker /\ TickResult(tick_outcome') = "Err") => error'
       /\ (pc = "loop" /\ quiet_fault) => error
      ]_vars

\* C19 witness: a tick that failed to open its asset has been joined and
\* counted, and the engine is at the loop head that follows, the error flag
\* set.
C19_Witness ==
    /\ pc = "loop" /\ running /\ error /\ quiet_fault
    /\ tick_outcome = "none" /\ current_beat_count = 1

\* C20 as stated: no call on a menu panics, and the selection is None or
\* an index below the number of items.
C20_SelectionValid ==
    /\ ~menu_panicked
    /\ selected = None \/ selected < Len(items)

\* C21: every pass of the loop head that does not return computes the
\* sleep as refresh_rate minus the time elapsed since the last refresh, or
\* as refresh_rate when more than that has elapsed, whether the engine is
\* running or not and whatever the debug flag; the sleep of that cycle
\* lasts exactly that long, which is never more than refresh_rate; and
\* tick_count changes only in the debug step, with the debug flag set and
\* a full refresh_rate elapsed since the last refresh, by 1, or to 0 from
\* the largest value.
C21_BoundedSleep ==
    [][/\ (loop_head /\ pc' # "exited") =>
            timeout_refresh' =
               IF last_refresh_elapsed > refresh_rate THEN refresh_rate
               ELSE refresh_rate - last_refresh_elapsed
       /\ (timeout_refresh' # timeout_refresh) => (loop_head \/ sleep)
       /\ sleep =>
            /\ timeout_refresh >= 0 /\ timeout_refresh <= refresh_rate
            /\ last_refresh_elapsed' =
                  Saturate(last_refresh_elapsed + timeout_refresh,
                           RefreshElapsedCap)
       /\ (tick_count' # tick_count) =>
            /\ debug_tick /\ debug
            /\ last_refresh_elapsed >= refresh_rate
            /\ tick_count' = IF tick_count = MaxTickCount THEN 0
                             ELSE tick_count + 1
       /\ (debug_tick /\ ~(debug /\ last_refresh_elapsed >= refresh_rate)) =>
            UNCHANGED <<tick_count, last_refresh_elapsed>>
      ]_vars

\* C21 witness: with the debug flag set and tick_count at its largest
\* value, the engine, not running, is about to sleep a full refresh_rate
\* computed at a loop head reached right after a refresh.
C21_Witness ==
    /\ pc = "sleep" /\ debug /\ ~running /\ tick_count = MaxTickCount
    /\ timeout_refresh = refresh_rate /\ last_refresh_elapsed = 0

====
